---- MODULE Spec2Model ----
(***************************************************************************)
(* DualModeAdapter (provider/vm/dual.ts) driving two VMAdapter backends:   *)
(* the reference backend (EthereumJSAdapter) and the candidate backend     *)
(* (RethnetAdapter, provider/vm/rethnet.ts).  The two backends are         *)
(* separate pieces of state; a Dual Adapter method that awaits both is one *)
(* action up to each await and one from the last await on.                 *)
(***************************************************************************)
EXTENDS Integers, Sequences, FiniteSets, TLC

VARIABLES
    ej,       \* reference backend: [state, blockStart]
    rn,       \* candidate backend: [state, checkpoints]
    outcome,  \* the Dual Adapter call that took the last step: what it gave its
              \* caller, status "pending" while it is suspended at an await
    ret,      \* what the backends have returned to that call: <<ethereumJS, rethnet>>,
              \* rethnet being the settled promise of the native engine while
              \* the candidate's execution awaits it;
              \* under SpecEnv, <<the block environment's difficulty>>
    events,   \* ordered log of that call: backend calls, console output, return/throw
    suspended,\* the other calls in flight, each [outcome, ret, events]
    hist,     \* history: [clean, open, blockPre, revertedTo, writes, overlapped, root]
    cmpIn,    \* function under test: the values handed to it
    cmpOut    \* comparator under test: its verdict

vars == <<ej, rn, outcome, ret, events, suspended, hist, cmpIn, cmpOut>>

(***************************************************************************)
(* Bounds                                                                  *)
(***************************************************************************)
MaxBalance == 1     \* balances range over 0..MaxBalance
MaxNonce == 1       \* nonces range over 0..MaxNonce
MaxDepth == 2       \* open checkpoints on the candidate backend
MaxWrites == 3      \* state-mutating Dual Adapter calls in one run

Addresses == {"a1"}
Keys == {"k1"}
Codes == {<<>>, <<96>>}
ZeroWord == <<0>>
Words == {ZeroWord, <<1>>}

EJ == "ethereumjs"
RN == "rethnet"
NoErr == ""

(***************************************************************************)
(* Logical blockchain state held by one backend                            *)
(***************************************************************************)
Genesis ==
    [balance |-> [a \in Addresses |-> 1],
     nonce   |-> [a \in Addresses |-> 0],
     code    |-> [a \in Addresses |-> <<>>],
     storage |-> [a \in Addresses |-> [k \in Keys |-> ZeroWord]]]

\* BufferEquals with the byte comparison left out
BufferEqualsLengthOnly(a, b) == Len(a) = Len(b)

\* Buffer.equals: same length and the same byte at every index
BufferEquals(a, b) ==
    /\ Len(a) = Len(b)
    /\ \A i \in 1..Len(a) : a[i] = b[i]

\* state root: a digest that is injective on the logical state
StateRoot(s) == <<s.balance, s.nonce, s.code, s.storage>>

StateOfRoot(root) ==
    [balance |-> root[1], nonce |-> root[2], code |-> root[3], storage |-> root[4]]

\* roots a caller hands to restoreContext / setBlockContext: the root of the
\* genesis state, and <<>>, a root no backend knows
RootInputs == {StateRoot(Genesis), <<>>}
KnownRoot(root) == Len(root) # 0

CodeHash(code) == <<"keccak256", code>>
StorageRoot(slots) == <<"trie", slots>>
EmptyStorageRoot == StorageRoot([k \in Keys |-> ZeroWord])

\* accounts a caller hands to putAccount: the balance emptied with the nonce
\* advanced, and the account of the genesis state
AccountInputs ==
    {[balance |-> 0, nonce |-> 1], [balance |-> 1, nonce |-> 0]}

PutAccountSt(s, a, acct) ==
    [s EXCEPT !.balance[a] = acct.balance, !.nonce[a] = acct.nonce]

PutCodeSt(s, a, code) == [s EXCEPT !.code[a] = code]

PutStorageSt(s, a, k, v) == [s EXCEPT !.storage[a][k] = v]

\* rewards: a sequence of <<address, amount>>
RECURSIVE RewardsSt(_, _)
RewardsSt(s, rewards) ==
    IF Len(rewards) = 0 THEN s
    ELSE RewardsSt([s EXCEPT !.balance[rewards[1][1]] = @ + rewards[1][2]],
                   Tail(rewards))

RewardInputs == {<< <<"a1", 1>> >>}

\* a value transfer out of tx.from
Txs == {[from |-> "a1", value |-> 1]}

\* a bigint as three 16-bit limbs, most significant first
BigInts == {<<0, 0, 0>>, <<0, 0, 1>>, <<0, 65535, 65534>>, <<0, 65535, 65535>>,
            <<1, 0, 0>>, <<1, 0, 1>>, <<65535, 65535, 65535>>}

BlockNumbers == {0, 1, 2}

\* the blocks a caller hands to dryRun and runTxInBlock: one before the
\* merge with a difficulty of 2^32 and no base fee to pay, one after the
\* merge with a base fee of 1
Blocks ==
    {[header |-> [number |-> 0, difficulty |-> << <<1, 0, 0>> >>,
                  mixHash |-> <<0, 0, 0, 0, 0, 0>>, baseFeePerGas |-> 0]],
     [header |-> [number |-> 1, difficulty |-> << <<1, 0, 0>> >>,
                  mixHash |-> <<1, 2, 3, 4, 5, 6>>, baseFeePerGas |-> 1]]}

\* forceBaseFeeZero?: absent or true
ForceBaseFeeZeroInputs == {<<>>, <<TRUE>>}

\* the state an execution of tx leaves when the block environment's base fee
\* is basefee: the sender pays the value and the fee, or the execution fails
\* and changes nothing
EngineApply(s, tx, basefee) ==
    IF s.balance[tx.from] >= tx.value + basefee
    THEN [s EXCEPT !.balance[tx.from] = @ - (tx.value + basefee),
                   !.nonce[tx.from] = @ + 1]
    ELSE s

(***************************************************************************)
(* Results of backend calls                                                *)
(***************************************************************************)
Call(b, op) == <<"call", b, op>>
Done(b, op) == <<"done", b, op>>
Failed(b, op) == <<"fail", b, op>>
Log(msg) == <<"log", msg>>
Dump(b, trace) == <<"dump", b, trace>>
Return == <<"return">>
Throw(msg) == <<"throw", msg>>

\* err: the message of the rejection, NoErr when the call completed;
\* st: the backend after the call; logs: what the call wrote to the console
Ok(b) == [err |-> NoErr, st |-> b, logs |-> <<>>]
Fail(msg, b) == [err |-> msg, st |-> b, logs |-> <<>>]

\* Besides the failures of its own logic a backend call may reject for a
\* reason of its environment (a native error, a failed remote fetch):
\* "reject" is such a call, which leaves the backend untouched.
Faults == {"none", "reject"}
\* the candidate's dryRun and runTxInBlock may throw while converting the
\* result the engine handed back
ConversionFaults == {"none", "conversion"}
ConversionFailure == "conversion failed"
Inject(fault, res, pre) ==
    IF fault = "reject" THEN Fail("backend failure", pre) ELSE res

\* CallOk with the other backend called before this call has completed
CallOkOverlapping(b, op, r) ==
    <<Call(b, op), Call(IF b = EJ THEN RN ELSE EJ, op)>> \o r.logs \o <<Done(b, op)>>

\* an awaited backend call that completed, with what it wrote to the console
CallOk(b, op, r) == <<Call(b, op)>> \o r.logs \o <<Done(b, op)>>

\* an awaited backend call that rejected: the rejection leaves the Dual
\* Adapter method
CallFailed(b, op, r) == <<Call(b, op)>> \o r.logs \o <<Failed(b, op), Throw(r.err)>>

Pending == "pending"

\* a trace: <<what it traces, the kind of its values>>
EJTrace == <<"ethereumjs-trace", "number">>
RNTrace == <<"rethnet-trace", "bigint">>

BaseResult ==
    [totalGasSpent  |-> 21000,
     gasRefund      |-> 0,
     createdAddress |-> <<>>,
     exceptionError |-> <<>>,
     returnValue    |-> <<>>]

\* << <<reference result, trace>>, <<candidate result, trace>> >> the two
\* engines hand back for one execution in the adapter specification:
\* agreement, a gasRefund off by one, and a contract creation whose
\* returnValues differ
EnginePairs ==
    {<< <<BaseResult, EJTrace>>, <<BaseResult, RNTrace>> >>,
     << <<BaseResult, EJTrace>>, <<[BaseResult EXCEPT !.gasRefund = 1], RNTrace>> >>,
     << <<[BaseResult EXCEPT !.createdAddress = << <<193>> >>], EJTrace>>,
        <<[BaseResult EXCEPT !.createdAddress = << <<193>> >>, !.returnValue = <<96>>],
          RNTrace>> >>}

(***************************************************************************)
(* Result Comparator (dual.ts)                                             *)
(***************************************************************************)
\* JavaScript values met by the comparator's !== tests
Undefined == <<"undefined">>
JSString(s) == <<"string", s>>

HexDigits == <<"0", "1", "2", "3", "4", "5", "6", "7",
               "8", "9", "a", "b", "c", "d", "e", "f">>

\* Buffer.toString("hex"): two hexadecimal digits per byte
ToHex(bytes) ==
    [i \in 1..(2 * Len(bytes)) |->
        IF i % 2 = 1
        THEN HexDigits[(bytes[(i + 1) \div 2] \div 16) + 1]
        ELSE HexDigits[(bytes[i \div 2] % 16) + 1]]


\* createdAddress?.toString()
CreatedAddressString(res) ==
    \* Address.toString(): "0x" followed by the hexadecimal digits
    LET AddressToString(addr) == JSString(<<"0", "x">> \o ToHex(addr))
    IN IF Len(res.createdAddress) = 0 THEN Undefined
       ELSE AddressToString(res.createdAddress[1])

\* execResult.exceptionError?.error
ExceptionErrorError(res) ==
    IF Len(res.exceptionError) = 0 THEN Undefined
    ELSE JSString(res.exceptionError[1].error)

\* execResult.exceptionError?.errorType
ExceptionErrorType(res) ==
    IF Len(res.exceptionError) = 0 THEN Undefined
    ELSE JSString(res.exceptionError[1].errorType)

\* assertEqualRunTxResults with the exceptionError.errorType test left out
assertEqualRunTxResultsNoErrorType(ethereumJSResult, rethnetResult) ==
    IF ethereumJSResult.totalGasSpent # rethnetResult.totalGasSpent
    THEN "Different totalGasSpent"
    ELSE IF ethereumJSResult.gasRefund # rethnetResult.gasRefund
    THEN "Different gasRefund"
    ELSE IF CreatedAddressString(ethereumJSResult) # CreatedAddressString(rethnetResult)
    THEN "Different createdAddress"
    ELSE IF ExceptionErrorError(ethereumJSResult) # ExceptionErrorError(rethnetResult)
    THEN "Different exceptionError.error"
    ELSE IF /\ Len(ethereumJSResult.createdAddress) = 0
            /\ ToHex(ethereumJSResult.returnValue) # ToHex(rethnetResult.returnValue)
    THEN "Different returnValue"
    ELSE NoErr

\* assertEqualRunTxResults with the gasRefund test left out
assertEqualRunTxResultsNoGasRefund(ethereumJSResult, rethnetResult) ==
    IF ethereumJSResult.totalGasSpent # rethnetResult.totalGasSpent
    THEN "Different totalGasSpent"
    ELSE IF CreatedAddressString(ethereumJSResult) # CreatedAddressString(rethnetResult)
    THEN "Different createdAddress"
    ELSE IF ExceptionErrorError(ethereumJSResult) # ExceptionErrorError(rethnetResult)
    THEN "Different exceptionError.error"
    ELSE IF ExceptionErrorType(ethereumJSResult) # ExceptionErrorType(rethnetResult)
    THEN "Different exceptionError.errorType"
    ELSE IF /\ Len(ethereumJSResult.createdAddress) = 0
            /\ ToHex(ethereumJSResult.returnValue) # ToHex(rethnetResult.returnValue)
    THEN "Different returnValue"
    ELSE NoErr

\* assertEqualRunTxResults with the returnValue test left out
assertEqualRunTxResultsNoReturnValue(ethereumJSResult, rethnetResult) ==
    IF ethereumJSResult.totalGasSpent # rethnetResult.totalGasSpent
    THEN "Different totalGasSpent"
    ELSE IF ethereumJSResult.gasRefund # rethnetResult.gasRefund
    THEN "Different gasRefund"
    ELSE IF CreatedAddressString(ethereumJSResult) # CreatedAddressString(rethnetResult)
    THEN "Different createdAddress"
    ELSE IF ExceptionErrorError(ethereumJSResult) # ExceptionErrorError(rethnetResult)
    THEN "Different exceptionError.error"
    ELSE IF ExceptionErrorType(ethereumJSResult) # ExceptionErrorType(rethnetResult)
    THEN "Different exceptionError.errorType"
    ELSE NoErr

\* the message of the Error thrown, NoErr when the function returns
assertEqualRunTxResults(ethereumJSResult, rethnetResult) ==
    IF ethereumJSResult.totalGasSpent # rethnetResult.totalGasSpent
    THEN "Different totalGasSpent"
    ELSE IF ethereumJSResult.gasRefund # rethnetResult.gasRefund
    THEN "Different gasRefund"
    ELSE IF CreatedAddressString(ethereumJSResult) # CreatedAddressString(rethnetResult)
    THEN "Different createdAddress"
    ELSE IF ExceptionErrorError(ethereumJSResult) # ExceptionErrorError(rethnetResult)
    THEN "Different exceptionError.error"
    ELSE IF ExceptionErrorType(ethereumJSResult) # ExceptionErrorType(rethnetResult)
    THEN "Different exceptionError.errorType"
    ELSE IF /\ Len(ethereumJSResult.createdAddress) = 0
            /\ ToHex(ethereumJSResult.returnValue) # ToHex(rethnetResult.returnValue)
    THEN "Different returnValue"
    ELSE NoErr

\* assertEqualAccounts with the nonce test left out
assertEqualAccountsNoNonce(ethereumJSAccount, rethnetAccount) ==
    IF ethereumJSAccount.balance # rethnetAccount.balance
    THEN "Different balance"
    ELSE IF ~BufferEquals(ethereumJSAccount.codeHash, rethnetAccount.codeHash)
    THEN "Different codeHash"
    ELSE NoErr

\* assertEqualAccounts with the nonce test ahead of the codeHash test
assertEqualAccountsNonceFirst(ethereumJSAccount, rethnetAccount) ==
    IF ethereumJSAccount.balance # rethnetAccount.balance
    THEN "Different balance"
    ELSE IF ethereumJSAccount.nonce # rethnetAccount.nonce
    THEN "Different nonce"
    ELSE IF ~BufferEquals(ethereumJSAccount.codeHash, rethnetAccount.codeHash)
    THEN "Different codeHash"
    ELSE NoErr

assertEqualAccounts(ethereumJSAccount, rethnetAccount) ==
    IF ethereumJSAccount.balance # rethnetAccount.balance
    THEN "Different balance"
    ELSE IF ~BufferEquals(ethereumJSAccount.codeHash, rethnetAccount.codeHash)
    THEN "Different codeHash"
    ELSE IF ethereumJSAccount.nonce # rethnetAccount.nonce
    THEN "Different nonce"
    ELSE NoErr

(***************************************************************************)
(* Reference backend (EthereumJSAdapter)                                   *)
(***************************************************************************)
EJInit == [state |-> Genesis, blockStart |-> <<>>]

EJBlockOpen(e) == Len(e.blockStart) # 0

EJGetStateRoot(e) == StateRoot(e.state)

EJGetAccount(e, a) ==
    [balance     |-> e.state.balance[a],
     nonce       |-> e.state.nonce[a],
     codeHash    |-> CodeHash(e.state.code[a]),
     storageRoot |-> StorageRoot(e.state.storage[a])]

EJGetContractStorage(e, a, k) == e.state.storage[a][k]

EJGetContractCode(e, a) == e.state.code[a]

EJPutAccount(e, a, acct) == Ok([e EXCEPT !.state = PutAccountSt(@, a, acct)])

EJPutContractCode(e, a, code) == Ok([e EXCEPT !.state = PutCodeSt(@, a, code)])

EJPutContractStorage(e, a, k, v) ==
    Ok([e EXCEPT !.state = PutStorageSt(@, a, k, v)])

EJSetStateRoot(e, root) ==
    IF KnownRoot(root) THEN Ok([e EXCEPT !.state = StateOfRoot(root)])
    ELSE Fail("no such state root", e)

EJRestoreContext(e, root) == EJSetStateRoot(e, root)

EJSetBlockContext(e, root) == EJSetStateRoot(e, root)

EJStartBlock(e) ==
    IF EJBlockOpen(e) THEN Fail("a block is already started", e)
    ELSE Ok([e EXCEPT !.blockStart = <<e.state>>])

EJRunTxInBlock(e, tx, block) ==
    IF ~EJBlockOpen(e) THEN Fail("no block was started", e)
    ELSE Ok([e EXCEPT !.state = EngineApply(@, tx, block.header.baseFeePerGas)])

EJAddBlockRewards(e, rewards) ==
    IF ~EJBlockOpen(e) THEN Fail("no block was started", e)
    ELSE Ok([e EXCEPT !.state = RewardsSt(@, rewards)])

EJSealBlock(e) ==
    IF ~EJBlockOpen(e) THEN Fail("no block was started", e)
    ELSE Ok([e EXCEPT !.blockStart = <<>>])

EJRevertBlock(e) ==
    IF ~EJBlockOpen(e) THEN Fail("no block was started", e)
    ELSE Ok([e EXCEPT !.state = e.blockStart[1], !.blockStart = <<>>])

\* EJDryRun that persists the execution
EJDryRunPersisting(e, tx, blockContext, forceBaseFeeZero) ==
    Ok([e EXCEPT !.state =
           EngineApply(@, tx, IF forceBaseFeeZero = <<TRUE>> THEN 0
                              ELSE blockContext.header.baseFeePerGas)])

\* dryRun "executes without persisting state changes"
EJDryRun(e, tx, blockContext, forceBaseFeeZero) == Ok(e)

EJTraceTransaction(e, found) ==
    IF found THEN Ok(e) ELSE Fail("unable to find a transaction in a block", e)

EJEnableTracing(e) == Ok(e)

EJDisableTracing(e) == Ok(e)

(***************************************************************************)
(* Block environment of the candidate backend (rethnet.ts)                 *)
(***************************************************************************)
\* a > b on bigints
BigGreater(a, b) ==
    \/ a[1] > b[1]
    \/ a[1] = b[1] /\ a[2] > b[2]
    \/ a[1] = b[1] /\ a[2] = b[2] /\ a[3] > b[3]

\* bufferToBigInt: the big-endian value of a six-byte buffer
BufferToBigInt(buf) ==
    <<buf[1] * 256 + buf[2], buf[3] * 256 + buf[4], buf[5] * 256 + buf[6]>>

\* HardforkName, oldest first
HardforkOrder ==
    <<"chainstart", "homestead", "dao", "tangerineWhistle", "spuriousDragon",
      "byzantium", "constantinople", "petersburg", "istanbul", "muirGlacier",
      "berlin", "london", "arrowGlacier", "grayGlacier", "merge", "shanghai">>

hardforkGte(hardforkA, hardforkB) ==
    LET Index(name) == CHOOSE i \in 1..Len(HardforkOrder) : HardforkOrder[i] = name
    IN Index(hardforkA) >= Index(hardforkB)

\* 2n ** 32n - 1n
MAX_DIFFICULTY == <<0, 65535, 65535>>

\* _getBlockEnvDifficulty without the clamp
getBlockEnvDifficultyUnclamped(selectHardfork, blockNumber, difficulty, mixHash) ==
    IF hardforkGte(selectHardfork[blockNumber], "merge") THEN mixHash
    ELSE difficulty

\* an absent bigint is <<>>, a present one <<n>>
getBlockEnvDifficulty(selectHardfork, blockNumber, difficulty, mixHash) ==
    LET hardfork == selectHardfork[blockNumber]
        isPostMergeHardfork == hardforkGte(hardfork, "merge")
    IN IF isPostMergeHardfork THEN mixHash
       ELSE IF Len(difficulty) # 0 /\ BigGreater(difficulty[1], MAX_DIFFICULTY)
       THEN <<MAX_DIFFICULTY>>
       ELSE difficulty

\* console.trace("Difficulty is larger than U256::max:", ..): what
\* _getBlockEnvDifficulty writes to the console, which it does when it clamps
getBlockEnvDifficultyTrace(selectHardfork, blockNumber, difficulty) ==
    IF /\ ~hardforkGte(selectHardfork[blockNumber], "merge")
       /\ Len(difficulty) # 0
       /\ BigGreater(difficulty[1], MAX_DIFFICULTY)
    THEN <<Log("Difficulty is larger than U256::max:")>>
    ELSE <<>>

\* this._selectHardfork of the adapter: the merge comes with block 1
SelectHardfork == [n \in BlockNumbers |-> IF n >= 1 THEN "merge" ELSE "grayGlacier"]

\* the block environment dryRun hands to guaranteedDryRun
DryRunBlockEnv(blockContext, forceBaseFeeZero) ==
    [number     |-> blockContext.header.number,
     basefee    |-> IF forceBaseFeeZero = <<TRUE>> THEN 0
                    ELSE blockContext.header.baseFeePerGas,
     difficulty |-> getBlockEnvDifficulty(SelectHardfork, blockContext.header.number,
                                          blockContext.header.difficulty,
                                          <<BufferToBigInt(blockContext.header.mixHash)>>)]

\* ethereumjsHeaderDataToRethnet(block.header, difficulty)
ethereumjsHeaderDataToRethnet(header, difficulty) ==
    [number |-> header.number, basefee |-> header.baseFeePerGas,
     difficulty |-> difficulty]

(***************************************************************************)
(* Candidate backend (RethnetAdapter)                                      *)
(***************************************************************************)
RethnetInit == [state |-> Genesis, checkpoints |-> <<>>]

RethnetGetStateRoot(r) == StateRoot(r.state)

\* Rethnet.run(tx, blockEnv) of the native engine: the execution is persisted
\* in the state the engine was built on
RethnetRun(r, tx, blockEnv) ==
    Ok([r EXCEPT !.state = EngineApply(@, tx, blockEnv.basefee)])

\* Rethnet.guaranteedDryRun(tx, blockEnv) of the native engine: the execution
\* runs "without modifying the state"
RethnetGuaranteedDryRun(r, tx, blockEnv) == Ok(r)

\* RethnetDryRun that calls this._rethnet.run(..), as runTxInBlock does
RethnetDryRunPersisting(r, tx, blockContext, forceBaseFeeZero, fault) ==
    LET warned == getBlockEnvDifficultyTrace(SelectHardfork, blockContext.header.number,
                                             blockContext.header.difficulty)
        rethnetResult ==
            Inject(fault,
                   RethnetRun(r, tx, DryRunBlockEnv(blockContext, forceBaseFeeZero)),
                   r)
    IN [rethnetResult EXCEPT !.logs = warned]

\* dryRun up to its await: _getBlockEnvDifficulty(..), then the call of
\* this._rethnet.guaranteedDryRun(..); err is the rejection of the engine's
\* promise, which the await delivers
RethnetDryRun(r, tx, blockContext, forceBaseFeeZero, fault) ==
    LET warned == getBlockEnvDifficultyTrace(SelectHardfork, blockContext.header.number,
                                             blockContext.header.difficulty)
        rethnetResult ==
            Inject(fault,
                   RethnetGuaranteedDryRun(r, tx,
                                           DryRunBlockEnv(blockContext, forceBaseFeeZero)),
                   r)
    IN [rethnetResult EXCEPT !.logs = warned]

\* dryRun after its await, with the engine's promise settled, <<err>> when
\* rejected and the <<result, trace>> of the engine otherwise: a rejection
\* leaves the method; rethnetResultToRunTxResult(..) follows, whose exception
\* is rethrown after the trace of the execution has been logged
RethnetDryRunReturn(rethnetResult, fault) ==
    IF Len(rethnetResult) = 1 THEN [err |-> rethnetResult[1], logs |-> <<>>]
    ELSE IF fault = "conversion"
    THEN [err |-> ConversionFailure,
          logs |-> <<Log("Rethnet trace"), Log(rethnetResult[2])>>]
    ELSE [err |-> NoErr, logs |-> <<>>]

RethnetGetAccount(r, a) ==
    [balance     |-> r.state.balance[a],
     nonce       |-> r.state.nonce[a],
     codeHash    |-> CodeHash(r.state.code[a]),
     storageRoot |-> EmptyStorageRoot]

RethnetGetContractStorage(r, a, k) == r.state.storage[a][k]

RethnetGetContractCode(r, a) == r.state.code[a]

RethnetPutAccount(r, a, acct) == Ok([r EXCEPT !.state = PutAccountSt(@, a, acct)])

RethnetPutContractCode(r, a, code) == Ok([r EXCEPT !.state = PutCodeSt(@, a, code)])

RethnetPutContractStorage(r, a, k, v) ==
    Ok([r EXCEPT !.state = PutStorageSt(@, a, k, v)])

RethnetSetBlockContext(r, root) == Fail("not implemented", r)

RethnetRestoreContext(r, root) ==
    IF KnownRoot(root) THEN Ok([r EXCEPT !.state = StateOfRoot(root)])
    ELSE Fail("no such state root", r)

\* this._state.checkpoint()
RethnetStartBlock(r) == Ok([r EXCEPT !.checkpoints = Append(@, r.state)])

\* runTxInBlock up to its await: _getBlockEnvDifficulty(..), then the call
\* of this._rethnet.run(..), which persists the execution; err is the
\* rejection of the engine's promise, which the await delivers
RethnetRunTxInBlock(r, tx, block, fault) ==
    LET warned == getBlockEnvDifficultyTrace(SelectHardfork, block.header.number,
                                             block.header.difficulty)
        difficulty == getBlockEnvDifficulty(SelectHardfork, block.header.number,
                                            block.header.difficulty,
                                            <<BufferToBigInt(block.header.mixHash)>>)
        rethnetResult ==
            Inject(fault,
                   RethnetRun(r, tx, ethereumjsHeaderDataToRethnet(block.header, difficulty)),
                   r)
    IN [rethnetResult EXCEPT !.logs = warned]

\* runTxInBlock after its await, with the engine's promise settled: a
\* rejection leaves the method; rethnetResultToRunTxResult(..) follows and is
\* not caught
RethnetRunTxInBlockReturn(rethnetResult, fault) ==
    IF Len(rethnetResult) = 1 THEN [err |-> rethnetResult[1], logs |-> <<>>]
    ELSE IF fault = "conversion" THEN [err |-> ConversionFailure, logs |-> <<>>]
    ELSE [err |-> NoErr, logs |-> <<>>]

\* BlockBuilder.new(this._state.asInner(), ..): a builder on the candidate's
\* state, which it leaves as it is
BlockBuilderNew(r) == Ok(r)

\* blockBuilder.finalize(rewards): the rewards are added to the balances of
\* the candidate's state
BlockBuilderFinalize(r, rewards) == Ok([r EXCEPT !.state = RewardsSt(@, rewards)])

RethnetSealBlock(r) == Ok(r)

\* this._state.revert()
RethnetRevertBlock(r) ==
    IF Len(r.checkpoints) = 0 THEN Fail("no checkpoint to revert to", r)
    ELSE Ok([state       |-> r.checkpoints[Len(r.checkpoints)],
             checkpoints |-> SubSeq(r.checkpoints, 1, Len(r.checkpoints) - 1)])

RethnetTraceTransaction(r) == Fail("not implemented", r)

RethnetEnableTracing(r) == Fail("not implemented", r)

RethnetDisableTracing(r) == Fail("not implemented", r)

(***************************************************************************)
(* Dual Adapter (DualModeAdapter)                                          *)
(*                                                                         *)
(* Every method is async: one step runs it up to an `await` of a backend   *)
(* call, a later step takes it from there to the next `await`, and a last  *)
(* step takes it from there to its return or throw; a method that ends in  *)
(* `return this._<backend>.op(..)` settles with that call.  Nothing in     *)
(* dual.ts keeps a second caller from invoking a method while one is       *)
(* suspended, so the steps of two operations may interleave.  A backend    *)
(* call takes effect in the step that makes it: the order of the steps is  *)
(* the order in which the calls of overlapping operations take effect, and *)
(* events holds the calls of one operation only.  A call that rejects      *)
(* leaves the method in the step that makes it.  Two operations at most    *)
(* are in flight at a time, and one pair of operations overlaps in a run   *)
(* (CanInvoke, CanRead).                                                   *)
(***************************************************************************)
\* JSON.stringify(trace, null, 2): a bigint cannot be serialised
JSONStringify(trace) ==
    IF trace[2] = "bigint"
    THEN [err |-> "Do not know how to serialize a BigInt", text |-> <<>>]
    ELSE [err |-> NoErr, text |-> <<"json", trace[1], trace[2]>>]

\* JSON.stringify(trace, (key, value) =>
\*     typeof value === "bigint" ? value.toString() : value, 2)
JSONStringifyBigIntAsString(trace) ==
    [err |-> NoErr,
     text |-> <<"json", trace[1], IF trace[2] = "bigint" THEN "string" ELSE trace[2]>>]

\* console.log(JSON.stringify(trace, null, 2))
printEthereumJSTrace(trace) ==
    LET text == JSONStringify(trace)
    IN [err |-> text.err,
        evs |-> IF text.err = NoErr THEN <<Dump(EJ, text.text)>> ELSE <<>>]

printRethnetTrace(trace) ==
    LET text == JSONStringifyBigIntAsString(trace)
    IN [err |-> text.err,
        evs |-> IF text.err = NoErr THEN <<Dump(RN, text.text)>> ELSE <<>>]

\* the catch block of dryRun and runTxInBlock up to `throw e`: err is the
\* error a printer threw, NoErr when both traces were printed
TraceDump(ethereumJSTrace, rethnetTrace) ==
    LET printedEj == printEthereumJSTrace(ethereumJSTrace)
        printedRn == printRethnetTrace(rethnetTrace)
    IN IF printedEj.err # NoErr
       THEN [err |-> printedEj.err, evs |-> <<Log("EthereumJS trace")>>]
       ELSE [err |-> printedRn.err,
             evs |-> <<Log("EthereumJS trace")>> \o printedEj.evs \o
                     <<Log(""), Log("Rethnet trace")>> \o printedRn.evs]

MutatingOps ==
    {"putAccount", "putContractCode", "putContractStorage", "restoreContext",
     "setBlockContext", "startBlock", "runTxInBlock", "addBlockRewards",
     "sealBlock", "revertBlock"}

\* the methods of the form `await first.op(..); return second.op(..)`
WriteReplicated ==
    {"putAccount", "putContractStorage", "restoreContext", "startBlock",
     "addBlockRewards", "sealBlock", "revertBlock"}

HasFailedCall(evs) == \E i \in 1..Len(evs) : evs[i][1] = "fail"

\* no root on record for either backend
NoRoots == << <<>>, <<>> >>

\* a getStateRoot is in flight and no mutating step has been taken since
Reading == [status |-> "reading", error |-> NoErr, value |-> <<>>, seen |-> "once"]

\* the history after a step of op that leaves it with the given status;
\* invoked tells the step that starts the operation.
\*   clean       no backend call has failed
\*   open        startBlock has returned and no sealBlock or revertBlock since
\*   blockPre    <<reference, candidate>>: the root each backend had when its
\*               startBlock call opened the latest block, while nothing but
\*               writes into the block has been called since
\*   revertedTo  blockPre of the block, for the backends whose revertBlock
\*               call has just completed
\*   writes      the state-mutating calls invoked
\*   overlapped  a method has been invoked while another was suspended
\*   root        the outcome of the latest getStateRoot, while no step of a
\*               state-mutating call has been taken since it was invoked;
\*               seen is "dryRun" while the next getStateRoot, invoked
\*               straight after a dryRun, is in flight, "again" on the
\*               outcome of that getStateRoot, "once" otherwise
HistAfter(op, status, evs, err, value, invoked) ==
    [clean      |-> hist.clean /\ ~HasFailedCall(evs),
     open       |-> IF status = "ok" /\ op = "startBlock" THEN TRUE
                    ELSE IF status = "ok" /\ op \in {"sealBlock", "revertBlock"} THEN FALSE
                    ELSE hist.open,
     blockPre   |-> IF op = "startBlock" /\ status = Pending
                    THEN << <<>>, <<StateRoot(rn.state)>> >>
                    ELSE IF op = "startBlock" /\ status = "ok"
                    THEN << <<StateRoot(ej.state)>>, hist.blockPre[2] >>
                    ELSE IF op = "revertBlock" /\ status = Pending
                    THEN << hist.blockPre[1], <<>> >>
                    ELSE IF /\ status # "error"
                            /\ op \in {"putAccount", "putContractCode",
                                       "putContractStorage", "runTxInBlock",
                                       "addBlockRewards"}
                    THEN hist.blockPre
                    ELSE NoRoots,
     revertedTo |-> IF op = "revertBlock" /\ status = Pending
                    THEN << <<>>, hist.blockPre[2] >>
                    ELSE IF op = "revertBlock" /\ status = "ok"
                    THEN << hist.blockPre[1], hist.revertedTo[2] >>
                    ELSE NoRoots,
     writes     |-> IF invoked /\ op \in MutatingOps THEN hist.writes + 1
                    ELSE hist.writes,
     overlapped |-> hist.overlapped \/ (invoked /\ outcome.status = Pending),
     root       |-> IF op \in MutatingOps THEN <<>>
                    ELSE IF op # "getStateRoot" THEN hist.root
                    ELSE IF invoked
                    THEN (IF status # Pending THEN <<>>
                          ELSE IF Len(hist.root) = 0 THEN <<Reading>>
                          ELSE IF hist.root[1].status = "reading" THEN hist.root
                          ELSE <<[hist.root[1] EXCEPT
                                     !.seen = IF outcome.op = "dryRun" THEN "dryRun"
                                              ELSE "once"]>>)
                    ELSE IF status = Pending THEN hist.root
                    ELSE IF HasFailedCall(evs) \/ Len(hist.root) = 0 THEN <<>>
                    ELSE <<[status |-> status, error |-> err, value |-> value,
                            seen |-> IF hist.root[1].seen = "dryRun" THEN "again"
                                     ELSE "once"]>>]

\* the operation that took the last step
Current == [outcome |-> outcome, ret |-> ret, events |-> events]

InFlightOp(i) == IF i = 0 THEN Current ELSE suspended[i]

\* the backend calls operation p has awaited to completion
Completed(p) == Cardinality({k \in 1..Len(p.events) : p.events[k][1] = "done"})

\* the invocations of op suspended at the await of their n-th backend call,
\* among the operations suspended at an await: 0 is the current one
Awaiting(op, n) ==
    LET InFlight == {i \in 0..Len(suspended) : i > 0 \/ outcome.status = Pending}
    IN {i \in InFlight : /\ InFlightOp(i).outcome.op = op
                         /\ Completed(InFlightOp(i)) = n}

\* the operations left suspended when operation i goes on
OthersOf(i) ==
    IF i = 0 THEN suspended
    ELSE IF outcome.status = Pending THEN <<Current>>
    ELSE <<>>

\* a caller may invoke a method when no operation is in flight; a second
\* caller may invoke one while an operation is suspended, once in a run,
\* while no backend call has failed and while a state-mutating call is left
\* to the run
CanInvoke ==
    /\ Len(suspended) = 0
    /\ outcome.status = Pending
          => (hist.clean /\ ~hist.overlapped /\ hist.writes < MaxWrites)

\* a method that mutates nothing is invoked beside a suspended operation when
\* that operation mutates state: beside one that mutates nothing its steps are
\* the steps it takes alone
CanRead ==
    /\ CanInvoke
    /\ outcome.status = Pending => outcome.op \in MutatingOps

\* the operations left suspended when a method is invoked
Parked == IF outcome.status = Pending THEN <<Current>> ELSE <<>>

CanWrite == hist.writes < MaxWrites

\* the faults of the environment a backend call may meet: one backend call in
\* a run is rejected or fails in conversion for such a reason, and none once
\* a backend call has failed
Injectable(faults) == IF hist.clean THEN faults ELSE {"none"}

Step(op, args, status, newEj, newRn, evs, err, value, rets, others, invoked) ==
    /\ ej' = newEj
    /\ rn' = newRn
    /\ events' = evs
    /\ outcome' = [op     |-> op,
                   args   |-> args,
                   status |-> status,
                   error  |-> err,
                   value  |-> value]
    /\ ret' = rets
    /\ suspended' = others
    /\ hist' = HistAfter(op, status, evs, err, value, invoked)
    /\ UNCHANGED <<cmpIn, cmpOut>>

\* a method is invoked and awaits backend b: a rejection leaves the method,
\* otherwise the operation is suspended with what b returned
First(op, args, b, r, returned) ==
    Step(op, args, IF r.err = NoErr THEN Pending ELSE "error",
         IF b = EJ THEN r.st ELSE ej,
         IF b = RN THEN r.st ELSE rn,
         IF r.err = NoErr THEN CallOk(b, op, r) ELSE CallFailed(b, op, r),
         r.err, <<>>,
         IF r.err = NoErr THEN returned ELSE <<>>,
         Parked, TRUE)

\* a method is invoked and calls backend b, whose method awaits r before it
\* is done: a rejection leaves both methods, otherwise the operation is
\* suspended inside the backend's method
FirstBegun(op, args, b, r) ==
    Step(op, args, IF r.err = NoErr THEN Pending ELSE "error",
         IF b = EJ THEN r.st ELSE ej,
         IF b = RN THEN r.st ELSE rn,
         IF r.err = NoErr THEN <<Call(b, op)>> \o r.logs ELSE CallFailed(b, op, r),
         r.err, <<>>, <<>>, Parked, TRUE)

\* the operation i suspended inside the method of backend b goes on with the
\* last thing that method awaits, r: a rejection leaves both methods,
\* otherwise the backend's call is done and the operation awaits it
FirstDone(i, b, r) ==
    LET p == InFlightOp(i)
        op == p.outcome.op
    IN Step(op, p.outcome.args, IF r.err = NoErr THEN Pending ELSE "error",
            IF b = EJ THEN r.st ELSE ej,
            IF b = RN THEN r.st ELSE rn,
            p.events \o r.logs \o
                (IF r.err = NoErr THEN <<Done(b, op)>>
                 ELSE <<Failed(b, op), Throw(r.err)>>),
            r.err, <<>>, p.ret, OthersOf(i), FALSE)

\* Second that brings the first backend in line with the second when the
\* second rejects
SecondCompensating(i, b, r) ==
    LET p == InFlightOp(i)
        op == p.outcome.op
    IN Step(op, p.outcome.args, IF r.err = NoErr THEN "ok" ELSE "error",
            IF b = EJ THEN r.st
            ELSE IF r.err # NoErr THEN [ej EXCEPT !.state = rn.state] ELSE ej,
            IF b = RN THEN r.st
            ELSE IF r.err # NoErr THEN [rn EXCEPT !.state = ej.state] ELSE rn,
            p.events \o (IF r.err = NoErr THEN CallOk(b, op, r) \o <<Return>>
                         ELSE CallFailed(b, op, r)),
            r.err, <<>>, p.ret, OthersOf(i), FALSE)

\* `return this._<second>Adapter.op(..)`: the suspended operation i calls
\* backend b and settles with the outcome of that call
Second(i, b, r) ==
    LET p == InFlightOp(i)
        op == p.outcome.op
    IN Step(op, p.outcome.args, IF r.err = NoErr THEN "ok" ELSE "error",
            IF b = EJ THEN r.st ELSE ej,
            IF b = RN THEN r.st ELSE rn,
            p.events \o (IF r.err = NoErr THEN CallOk(b, op, r) \o <<Return>>
                         ELSE CallFailed(b, op, r)),
            r.err, <<>>, p.ret, OthersOf(i), FALSE)

\* `await this._rethnetAdapter.op(..)`: the suspended read i calls the
\* candidate, call rRn, which hands back rethnetValue
Candidate(i, rRn, rethnetValue) ==
    LET p == InFlightOp(i)
        op == p.outcome.op
    IN IF rRn.err # NoErr
       THEN Step(op, p.outcome.args, "error", ej, rRn.st,
                 p.events \o CallFailed(RN, op, rRn),
                 rRn.err, <<>>, p.ret, OthersOf(i), FALSE)
       ELSE Step(op, p.outcome.args, Pending, ej, rRn.st,
                 p.events \o CallOk(RN, op, rRn),
                 NoErr, <<>>, p.ret \o <<rethnetValue>>, OthersOf(i), FALSE)

\* `await this._rethnetAdapter.op(..)`: the suspended execution i calls the
\* candidate, whose method logs what rRn logged and calls the native engine,
\* which acts on the candidate's state; the operation is suspended inside the
\* candidate's method, at the await of the engine's promise, settled with
\* rethnetResult
CandidateBegun(i, rRn, rethnetResult) ==
    LET p == InFlightOp(i)
        op == p.outcome.op
    IN Step(op, p.outcome.args, Pending, ej, rRn.st,
            p.events \o <<Call(RN, op)>> \o rRn.logs,
            NoErr, <<>>,
            p.ret \o <<IF rRn.err = NoErr THEN rethnetResult ELSE <<rRn.err>>>>,
            OthersOf(i), FALSE)

\* the execution i suspended inside the candidate's method goes on after the
\* await of the engine's promise, with r what the rest of the method does: an
\* exception leaves both methods, otherwise the candidate's call is done and
\* has handed back the engine's result
CandidateReturned(i, r) ==
    LET p == InFlightOp(i)
        op == p.outcome.op
    IN IF r.err # NoErr
       THEN Step(op, p.outcome.args, "error", ej, rn,
                 p.events \o r.logs \o <<Failed(RN, op), Throw(r.err)>>,
                 r.err, <<>>, <<p.ret[1]>>, OthersOf(i), FALSE)
       ELSE Step(op, p.outcome.args, Pending, ej, rn,
                 p.events \o r.logs \o <<Done(RN, op)>>,
                 NoErr, <<>>, p.ret, OthersOf(i), FALSE)

\* the suspended read or execution i goes on after the candidate's await
\* with both values: err is the comparison's verdict, value what the method
\* returns when the two agree, traces the two traces the catch block prints
\* (none for a read)
Compared(i, err, value, traces) ==
    LET p == InFlightOp(i)
        dump == IF Len(traces) = 0 THEN [err |-> NoErr, evs |-> <<>>]
                ELSE TraceDump(traces[1], traces[2])
        thrown == IF err # NoErr /\ dump.err # NoErr THEN dump.err ELSE err
    IN Step(p.outcome.op, p.outcome.args, IF err = NoErr THEN "ok" ELSE "error",
            ej, rn,
            p.events \o (IF err = NoErr THEN <<Return>>
                         ELSE <<Log(err)>> \o dump.evs \o <<Throw(thrown)>>),
            thrown,
            IF err = NoErr THEN value ELSE <<>>,
            p.ret, OthersOf(i), FALSE)

\* return this._ethereumJSAdapter.op(..)
ReferenceOnly(op, args, rEj) ==
    Step(op, args, IF rEj.err = NoErr THEN "ok" ELSE "error", rEj.st, rn,
         IF rEj.err = NoErr THEN CallOk(EJ, op, rEj) \o <<Return>>
         ELSE CallFailed(EJ, op, rEj),
         rEj.err, <<>>, <<>>, Parked, TRUE)

\* what the reference engine may hand back for an execution
ReferenceOutputs == {pair[1] : pair \in EnginePairs}

\* dryRun: await this._ethereumJSAdapter.dryRun(..)
DryRun ==
    /\ CanRead
    /\ \E tx \in Txs, blockContext \in Blocks,
          forceBaseFeeZero \in ForceBaseFeeZeroInputs,
          fault \in Injectable(Faults), output \in ReferenceOutputs :
        First("dryRun", <<tx, blockContext, forceBaseFeeZero>>, EJ,
              Inject(fault, EJDryRun(ej, tx, blockContext, forceBaseFeeZero), ej),
              <<output>>)

\* dryRun: this._rethnetAdapter.dryRun(..) up to its
\* `await this._rethnet.guaranteedDryRun(..)`
DryRunCandidate ==
    \E i \in Awaiting("dryRun", 1), fault \in Injectable(Faults), pair \in EnginePairs :
        /\ Len(InFlightOp(i).ret) = 1
        /\ pair[1] = InFlightOp(i).ret[1]
        /\ LET args == InFlightOp(i).outcome.args
           IN CandidateBegun(i, RethnetDryRun(rn, args[1], args[2], args[3], fault),
                             pair[2])

\* dryRun: the candidate's dryRun after that await, its try block and its
\* catch block
DryRunCandidateReturn ==
    \E i \in Awaiting("dryRun", 1), fault \in Injectable(ConversionFaults) :
        /\ Len(InFlightOp(i).ret) = 2
        /\ CandidateReturned(i, RethnetDryRunReturn(InFlightOp(i).ret[2], fault))

\* DryRunCompare that hands its caller the reference's result and trace
DryRunCompareReturningReference ==
    \E i \in Awaiting("dryRun", 2) :
        LET ethereumJSResult == InFlightOp(i).ret[1][1]
            ethereumJSTrace == InFlightOp(i).ret[1][2]
            rethnetResult == InFlightOp(i).ret[2][1]
            rethnetTrace == InFlightOp(i).ret[2][2]
        IN Compared(i, assertEqualRunTxResults(ethereumJSResult, rethnetResult),
                    <<ethereumJSResult, ethereumJSTrace>>,
                    <<ethereumJSTrace, rethnetTrace>>)

\* dryRun: the try block and the catch block
DryRunCompare ==
    \E i \in Awaiting("dryRun", 2) :
        LET ethereumJSResult == InFlightOp(i).ret[1][1]
            ethereumJSTrace == InFlightOp(i).ret[1][2]
            rethnetResult == InFlightOp(i).ret[2][1]
            rethnetTrace == InFlightOp(i).ret[2][2]
        IN Compared(i, assertEqualRunTxResults(ethereumJSResult, rethnetResult),
                    <<rethnetResult, rethnetTrace>>,
                    <<ethereumJSTrace, rethnetTrace>>)

GetStateRoot ==
    /\ CanRead
    /\ \E fault \in Injectable(Faults) :
        LET ethereumJSRoot == EJGetStateRoot(ej)
        IN First("getStateRoot", <<>>, EJ, Inject(fault, Ok(ej), ej), <<ethereumJSRoot>>)

\* getStateRoot: await this._rethnetAdapter.getStateRoot()
GetStateRootCandidate ==
    \E i \in Awaiting("getStateRoot", 1), fault \in Injectable(Faults) :
        Candidate(i, Inject(fault, Ok(rn), rn), RethnetGetStateRoot(rn))

\* getStateRoot: the comparison of the two roots
GetStateRootCompare ==
    \E i \in Awaiting("getStateRoot", 2) :
        LET ethereumJSRoot == InFlightOp(i).ret[1]
            rethnetRoot == InFlightOp(i).ret[2]
        IN Compared(i,
                    IF ~BufferEquals(ethereumJSRoot, rethnetRoot)
                    THEN "Different state root" ELSE NoErr,
                    <<rethnetRoot>>, <<>>)

GetAccount ==
    /\ CanRead
    /\ \E address \in Addresses, fault \in Injectable(Faults) :
        LET ethereumJSAccount == EJGetAccount(ej, address)
        IN First("getAccount", <<address>>, EJ, Inject(fault, Ok(ej), ej),
                 <<ethereumJSAccount>>)

\* getAccount: await this._rethnetAdapter.getAccount(address)
GetAccountCandidate ==
    \E i \in Awaiting("getAccount", 1), fault \in Injectable(Faults) :
        LET address == InFlightOp(i).outcome.args[1]
        IN Candidate(i, Inject(fault, Ok(rn), rn), RethnetGetAccount(rn, address))

\* getAccount: assertEqualAccounts, then the reference's account
GetAccountCompare ==
    \E i \in Awaiting("getAccount", 2) :
        LET ethereumJSAccount == InFlightOp(i).ret[1]
            rethnetAccount == InFlightOp(i).ret[2]
        IN Compared(i, assertEqualAccounts(ethereumJSAccount, rethnetAccount),
                    <<ethereumJSAccount>>, <<>>)

GetContractStorage ==
    /\ CanRead
    /\ \E address \in Addresses, key \in Keys, fault \in Injectable(Faults) :
        LET ethereumJSStorageSlot == EJGetContractStorage(ej, address, key)
        IN First("getContractStorage", <<address, key>>, EJ,
                 Inject(fault, Ok(ej), ej), <<ethereumJSStorageSlot>>)

\* getContractStorage: await this._rethnetAdapter.getContractStorage(..)
GetContractStorageCandidate ==
    \E i \in Awaiting("getContractStorage", 1), fault \in Injectable(Faults) :
        LET address == InFlightOp(i).outcome.args[1]
            key == InFlightOp(i).outcome.args[2]
        IN Candidate(i, Inject(fault, Ok(rn), rn),
                     RethnetGetContractStorage(rn, address, key))

\* getContractStorage: the comparison of the two slots
GetContractStorageCompare ==
    \E i \in Awaiting("getContractStorage", 2) :
        LET ethereumJSStorageSlot == InFlightOp(i).ret[1]
            rethnetStorageSlot == InFlightOp(i).ret[2]
        IN Compared(i,
                    IF ~BufferEquals(ethereumJSStorageSlot, rethnetStorageSlot)
                    THEN "Different storage slot" ELSE NoErr,
                    <<rethnetStorageSlot>>, <<>>)

GetContractCode ==
    /\ CanRead
    /\ \E address \in Addresses, fault \in Injectable(Faults) :
        LET ethereumJSCode == EJGetContractCode(ej, address)
        IN First("getContractCode", <<address>>, EJ, Inject(fault, Ok(ej), ej),
                 <<ethereumJSCode>>)

\* getContractCode: await this._rethnetAdapter.getContractCode(address)
GetContractCodeCandidate ==
    \E i \in Awaiting("getContractCode", 1), fault \in Injectable(Faults) :
        LET address == InFlightOp(i).outcome.args[1]
        IN Candidate(i, Inject(fault, Ok(rn), rn), RethnetGetContractCode(rn, address))

\* getContractCode: the comparison of the two codes
GetContractCodeCompare ==
    \E i \in Awaiting("getContractCode", 2) :
        LET ethereumJSCode == InFlightOp(i).ret[1]
            rethnetCode == InFlightOp(i).ret[2]
        IN Compared(i,
                    IF ~BufferEquals(ethereumJSCode, rethnetCode)
                    THEN "Different contract code" ELSE NoErr,
                    <<rethnetCode>>, <<>>)

\* putAccount: await this._rethnetAdapter.putAccount(..)
PutAccount ==
    /\ CanInvoke
    /\ CanWrite
    /\ \E address \in Addresses, account \in AccountInputs, fault \in Injectable(Faults) :
        First("putAccount", <<address, account>>, RN,
              Inject(fault, RethnetPutAccount(rn, address, account), rn), <<>>)

\* putAccount: return this._ethereumJSAdapter.putAccount(..)
PutAccountReference ==
    \E i \in Awaiting("putAccount", 1), fault \in Injectable(Faults) :
        LET args == InFlightOp(i).outcome.args
        IN Second(i, EJ, Inject(fault, EJPutAccount(ej, args[1], args[2]), ej))

PutContractCode ==
    /\ CanInvoke
    /\ CanWrite
    /\ \E address \in Addresses, value \in Codes, fault \in Injectable(Faults) :
        ReferenceOnly("putContractCode", <<address, value>>,
                      Inject(fault, EJPutContractCode(ej, address, value), ej))

PutContractStorage ==
    /\ CanInvoke
    /\ CanWrite
    /\ \E address \in Addresses, key \in Keys, value \in Words, fault \in Injectable(Faults) :
        First("putContractStorage", <<address, key, value>>, RN,
              Inject(fault, RethnetPutContractStorage(rn, address, key, value), rn),
              <<>>)

PutContractStorageReference ==
    \E i \in Awaiting("putContractStorage", 1), fault \in Injectable(Faults) :
        LET args == InFlightOp(i).outcome.args
        IN Second(i, EJ,
                  Inject(fault, EJPutContractStorage(ej, args[1], args[2], args[3]), ej))

\* restoreContext: await this._ethereumJSAdapter.restoreContext(..)
RestoreContext ==
    /\ CanInvoke
    /\ CanWrite
    /\ \E stateRoot \in RootInputs, fault \in Injectable(Faults) :
        First("restoreContext", <<stateRoot>>, EJ,
              Inject(fault, EJRestoreContext(ej, stateRoot), ej), <<>>)

\* restoreContext: return this._rethnetAdapter.restoreContext(..)
RestoreContextCandidate ==
    \E i \in Awaiting("restoreContext", 1), fault \in Injectable(Faults) :
        LET stateRoot == InFlightOp(i).outcome.args[1]
        IN Second(i, RN, Inject(fault, RethnetRestoreContext(rn, stateRoot), rn))

TraceTransaction ==
    /\ CanRead
    /\ \E found \in BOOLEAN :
        ReferenceOnly("traceTransaction", <<found>>, EJTraceTransaction(ej, found))

EnableTracing ==
    /\ CanRead
    /\ ReferenceOnly("enableTracing", <<>>, EJEnableTracing(ej))

DisableTracing ==
    /\ CanRead
    /\ ReferenceOnly("disableTracing", <<>>, EJDisableTracing(ej))

\* SetBlockContext that calls the candidate as well
SetBlockContextReplicated ==
    /\ CanInvoke
    /\ CanWrite
    /\ \E stateRoot \in RootInputs :
        LET rEj == EJSetBlockContext(ej, stateRoot)
            rRn == RethnetSetBlockContext(rn, stateRoot)
        IN Step("setBlockContext", <<stateRoot>>, "error", rEj.st, rRn.st,
                IF rEj.err # NoErr THEN CallFailed(EJ, "setBlockContext", rEj)
                ELSE CallOk(EJ, "setBlockContext", rEj) \o
                     CallFailed(RN, "setBlockContext", rRn),
                IF rEj.err # NoErr THEN rEj.err ELSE rRn.err,
                <<>>, <<>>, Parked, TRUE)

SetBlockContext ==
    /\ CanInvoke
    /\ CanWrite
    /\ \E stateRoot \in RootInputs, fault \in Injectable(Faults) :
        ReferenceOnly("setBlockContext", <<stateRoot>>,
                      Inject(fault, EJSetBlockContext(ej, stateRoot), ej))

\* StartBlock with the reference's startBlock awaited first
StartBlockReferenceFirst ==
    /\ CanInvoke
    /\ CanWrite
    /\ Len(rn.checkpoints) < MaxDepth
    /\ \E fault \in Injectable(Faults) :
        First("startBlock", <<>>, EJ, Inject(fault, EJStartBlock(ej), ej), <<>>)

\* startBlock: await this._rethnetAdapter.startBlock()
StartBlock ==
    /\ CanInvoke
    /\ CanWrite
    /\ Len(rn.checkpoints) < MaxDepth
    /\ \E fault \in Injectable(Faults) :
        First("startBlock", <<>>, RN, Inject(fault, RethnetStartBlock(rn), rn), <<>>)

\* startBlock: return this._ethereumJSAdapter.startBlock()
StartBlockReference ==
    \E i \in Awaiting("startBlock", 1), fault \in Injectable(Faults) :
        Second(i, EJ, Inject(fault, EJStartBlock(ej), ej))

\* runTxInBlock: await this._ethereumJSAdapter.runTxInBlock(..)
RunTxInBlock ==
    /\ CanInvoke
    /\ CanWrite
    /\ \E tx \in Txs, block \in Blocks, fault \in Injectable(Faults),
          output \in ReferenceOutputs :
        /\ ej.state.nonce[tx.from] < MaxNonce
        /\ rn.state.nonce[tx.from] < MaxNonce
        /\ First("runTxInBlock", <<tx, block>>, EJ,
                 Inject(fault, EJRunTxInBlock(ej, tx, block), ej), <<output>>)

\* runTxInBlock: this._rethnetAdapter.runTxInBlock(..) up to its
\* `await this._rethnet.run(..)`
RunTxInBlockCandidate ==
    \E i \in Awaiting("runTxInBlock", 1), fault \in Injectable(Faults),
       pair \in EnginePairs :
        /\ Len(InFlightOp(i).ret) = 1
        /\ pair[1] = InFlightOp(i).ret[1]
        /\ LET args == InFlightOp(i).outcome.args
           IN CandidateBegun(i, RethnetRunTxInBlock(rn, args[1], args[2], fault), pair[2])

\* runTxInBlock: the candidate's runTxInBlock after that await
RunTxInBlockCandidateReturn ==
    \E i \in Awaiting("runTxInBlock", 1), fault \in Injectable(ConversionFaults) :
        /\ Len(InFlightOp(i).ret) = 2
        /\ CandidateReturned(i, RethnetRunTxInBlockReturn(InFlightOp(i).ret[2], fault))

\* runTxInBlock: the try block and the catch block
RunTxInBlockCompare ==
    \E i \in Awaiting("runTxInBlock", 2) :
        LET ethereumJSResult == InFlightOp(i).ret[1][1]
            ethereumJSTrace == InFlightOp(i).ret[1][2]
            rethnetResult == InFlightOp(i).ret[2][1]
            rethnetTrace == InFlightOp(i).ret[2][2]
        IN Compared(i, assertEqualRunTxResults(ethereumJSResult, rethnetResult),
                    <<ethereumJSResult, ethereumJSTrace>>,
                    <<ethereumJSTrace, rethnetTrace>>)

RewardTotal(rewards, a) ==
    LET RECURSIVE Sum(_)
        Sum(rs) == IF Len(rs) = 0 THEN 0
                   ELSE (IF rs[1][1] = a THEN rs[1][2] ELSE 0) + Sum(Tail(rs))
    IN Sum(rewards)

\* addBlockRewards: this._rethnetAdapter.addBlockRewards(..) up to its
\* `await BlockBuilder.new(..)`
AddBlockRewards ==
    /\ CanInvoke
    /\ CanWrite
    /\ \E rewards \in RewardInputs, fault \in Injectable(Faults) :
        /\ \A a \in Addresses :
            /\ ej.state.balance[a] + RewardTotal(rewards, a) <= MaxBalance
            /\ rn.state.balance[a] + RewardTotal(rewards, a) <= MaxBalance
        /\ FirstBegun("addBlockRewards", <<rewards>>, RN,
                      Inject(fault, BlockBuilderNew(rn), rn))

\* addBlockRewards: the candidate's `await blockBuilder.finalize(..)`
AddBlockRewardsFinalize ==
    \E i \in Awaiting("addBlockRewards", 0), fault \in Injectable(Faults) :
        LET rewards == InFlightOp(i).outcome.args[1]
        IN FirstDone(i, RN, Inject(fault, BlockBuilderFinalize(rn, rewards), rn))

\* addBlockRewards: return this._ethereumJSAdapter.addBlockRewards(..)
AddBlockRewardsReference ==
    \E i \in Awaiting("addBlockRewards", 1), fault \in Injectable(Faults) :
        LET rewards == InFlightOp(i).outcome.args[1]
        IN Second(i, EJ, Inject(fault, EJAddBlockRewards(ej, rewards), ej))

SealBlock ==
    /\ CanInvoke
    /\ CanWrite
    /\ \E fault \in Injectable(Faults) :
        First("sealBlock", <<>>, RN, Inject(fault, RethnetSealBlock(rn), rn), <<>>)

SealBlockReference ==
    \E i \in Awaiting("sealBlock", 1), fault \in Injectable(Faults) :
        Second(i, EJ, Inject(fault, EJSealBlock(ej), ej))

RevertBlock ==
    /\ CanInvoke
    /\ CanWrite
    /\ \E fault \in Injectable(Faults) :
        First("revertBlock", <<>>, RN, Inject(fault, RethnetRevertBlock(rn), rn), <<>>)

RevertBlockReference ==
    \E i \in Awaiting("revertBlock", 1), fault \in Injectable(Faults) :
        Second(i, EJ, Inject(fault, EJRevertBlock(ej), ej))

(***************************************************************************)
(* Specification of the adapter                                            *)
(***************************************************************************)
Created == [op |-> "create", args |-> <<>>, status |-> "ok",
            error |-> NoErr, value |-> <<>>]

NoHistory == [clean |-> TRUE, open |-> FALSE, blockPre |-> NoRoots,
              revertedTo |-> NoRoots, writes |-> 0, overlapped |-> FALSE,
              root |-> <<>>]

Init ==
    /\ ej = EJInit
    /\ rn = RethnetInit
    /\ outcome = Created
    /\ ret = <<>>
    /\ events = <<>>
    /\ suspended = <<>>
    /\ hist = NoHistory
    /\ cmpIn = <<>>
    /\ cmpOut = NoErr

Next ==
    \/ DryRun
    \/ DryRunCandidate
    \/ DryRunCandidateReturn
    \/ DryRunCompare
    \/ GetStateRoot
    \/ GetStateRootCandidate
    \/ GetStateRootCompare
    \/ GetAccount
    \/ GetAccountCandidate
    \/ GetAccountCompare
    \/ GetContractStorage
    \/ GetContractStorageCandidate
    \/ GetContractStorageCompare
    \/ GetContractCode
    \/ GetContractCodeCandidate
    \/ GetContractCodeCompare
    \/ PutAccount
    \/ PutAccountReference
    \/ PutContractCode
    \/ PutContractStorage
    \/ PutContractStorageReference
    \/ RestoreContext
    \/ RestoreContextCandidate
    \/ TraceTransaction
    \/ EnableTracing
    \/ DisableTracing
    \/ SetBlockContext
    \/ StartBlock
    \/ StartBlockReference
    \/ RunTxInBlock
    \/ RunTxInBlockCandidate
    \/ RunTxInBlockCandidateReturn
    \/ RunTxInBlockCompare
    \/ AddBlockRewards
    \/ AddBlockRewardsFinalize
    \/ AddBlockRewardsReference
    \/ SealBlock
    \/ SealBlockReference
    \/ RevertBlock
    \/ RevertBlockReference

Spec == Init /\ [][Next]_vars

(***************************************************************************)
(* Specification of the comparators alone: the pair of values is drawn in  *)
(* the initial state and one step applies the comparator to it.            *)
(***************************************************************************)
\* the RunTxResults handed to assertEqualRunTxResults: an absent
\* createdAddress or exceptionError is <<>>, a present one <<x>>
ResultSet ==
    [totalGasSpent  : {21000, 21001},
     gasRefund      : {0, 1},
     createdAddress : {<<>>, << <<193>> >>, << <<194>> >>},
     exceptionError : {<<>>} \cup
                      {<<x>> : x \in [error     : {"out of gas", "revert"},
                                       errorType : {"EvmError", "OtherError"}]},
     returnValue    : {<<>>, <<1>>, <<16>>}]

\* the Accounts handed to assertEqualAccounts
AccountSet ==
    [balance     : 0..MaxBalance,
     nonce       : 0..MaxNonce,
     codeHash    : {CodeHash(c) : c \in Codes},
     storageRoot : {StorageRoot([k \in Keys |-> w]) : w \in Words}]

CompareRunTxResults ==
    /\ cmpIn.kind = "runTxResult"
    /\ cmpOut = Pending
    /\ cmpOut' = assertEqualRunTxResults(cmpIn.left, cmpIn.right)
    /\ UNCHANGED <<ej, rn, outcome, ret, events, suspended, hist, cmpIn>>

CompareAccounts ==
    /\ cmpIn.kind = "account"
    /\ cmpOut = Pending
    /\ cmpOut' = assertEqualAccounts(cmpIn.left, cmpIn.right)
    /\ UNCHANGED <<ej, rn, outcome, ret, events, suspended, hist, cmpIn>>

InitCmp ==
    /\ ej = EJInit
    /\ rn = RethnetInit
    /\ outcome = Created
    /\ ret = <<>>
    /\ events = <<>>
    /\ suspended = <<>>
    /\ hist = NoHistory
    /\ \/ cmpIn \in [kind : {"runTxResult"}, left : ResultSet, right : ResultSet]
       \/ cmpIn \in [kind : {"account"}, left : AccountSet, right : AccountSet]
    /\ cmpOut = Pending

NextCmp == CompareRunTxResults \/ CompareAccounts

SpecCmp == InitCmp /\ [][NextCmp]_vars

(***************************************************************************)
(* Specification of the candidate's block environment                      *)
(***************************************************************************)
\* the difficulty dryRun and runTxInBlock put into the block environment
BlockEnvDifficulty ==
    /\ cmpIn.kind = "blockEnv"
    /\ Len(ret) = 0
    /\ LET difficulty ==
               getBlockEnvDifficulty(cmpIn.selectHardfork, cmpIn.header.number,
                                     cmpIn.header.difficulty,
                                     <<BufferToBigInt(cmpIn.header.mixHash)>>)
       IN /\ ret' = <<difficulty>>
          /\ events' = getBlockEnvDifficultyTrace(cmpIn.selectHardfork,
                                                  cmpIn.header.number,
                                                  cmpIn.header.difficulty)
    /\ UNCHANGED <<ej, rn, outcome, suspended, hist, cmpIn, cmpOut>>

InitEnv ==
    \* this._selectHardfork: the hardfork active at each block number
    LET HardforkSelectors ==
            {[n \in BlockNumbers |-> "london"],
             [n \in BlockNumbers |-> IF n >= 1 THEN "merge" ELSE "grayGlacier"],
             [n \in BlockNumbers |-> IF n >= 2 THEN "shanghai" ELSE "merge"]}
        \* header.difficulty
        Difficulties == {<<>>} \cup {<<d>> : d \in BigInts}
        \* header.mixHash
        MixHashes == {<<0, 0, 0, 0, 0, 0>>, <<0, 1, 0, 0, 255, 255>>, <<1, 2, 3, 4, 5, 6>>}
    IN
    /\ ej = EJInit
    /\ rn = RethnetInit
    /\ outcome = Created
    /\ ret = <<>>
    /\ events = <<>>
    /\ suspended = <<>>
    /\ hist = NoHistory
    /\ cmpIn \in [kind : {"blockEnv"},
                  selectHardfork : HardforkSelectors,
                  header : [number : BlockNumbers,
                            difficulty : Difficulties,
                            mixHash : MixHashes]]
    /\ cmpOut = Pending

NextEnv == BlockEnvDifficulty

SpecEnv == InitEnv /\ [][NextEnv]_vars

(***************************************************************************)
(* Properties                                                              *)
(***************************************************************************)
HasEvent(e) == \E i \in 1..Len(events) : events[i] = e
Precedes(a, b) ==
    \E i \in 1..Len(events), j \in 1..Len(events) :
        i < j /\ events[i] = a /\ events[j] = b
CalledBackend(b) ==
    \E i \in 1..Len(events) : events[i][1] = "call" /\ events[i][2] = b
Is(op) == outcome.op = op
Succeeded == outcome.status = "ok"
Threw == outcome.status = "error"

Idle == outcome.status # Pending /\ Len(suspended) = 0

\* C1: while no backend call has failed, both backends hold the same logical
\* accounts, code and storage whenever the Dual Adapter is idle.
C1_Lockstep == (Idle /\ hist.clean) => ej.state = rn.state

\* C2: addBlockRewards or sealBlock with no block open, and startBlock with
\* a block open, fail, and no step of theirs changes either backend's state or
\* checkpoints.
C2_SequencingEnforced ==
    [][(\/ outcome'.op \in {"addBlockRewards", "sealBlock"} /\ ~hist.open
        \/ outcome'.op = "startBlock" /\ hist.open)
       => (outcome'.status # "ok" /\ ej' = ej /\ rn' = rn)]_vars

\* C3: after putContractCode(addr, code) succeeds, the candidate backend's
\* getContractCode(addr) equals code.
C3_CodeOnCandidate ==
    (Is("putContractCode") /\ Succeeded)
        => RethnetGetContractCode(rn, outcome.args[1]) = outcome.args[2]

ByteReads == {"getStateRoot", "getContractStorage", "getContractCode"}

ByteReadError ==
    [op \in ByteReads |->
        CASE op = "getStateRoot" -> "Different state root"
          [] op = "getContractStorage" -> "Different storage slot"
          [] op = "getContractCode" -> "Different contract code"]

\* C4: getStateRoot, getContractStorage and getContractCode call both backends
\* and, once both have returned, give their caller a value exactly when the two
\* byte sequences are equal; when they differ the call throws the error naming
\* the value and returns nothing.
C4_ReadCompare ==
    (outcome.op \in ByteReads /\ outcome.status # Pending) =>
        /\ CalledBackend(EJ)
        /\ Len(ret) = 2 <=>
              HasEvent(Done(EJ, outcome.op)) /\ HasEvent(Done(RN, outcome.op))
        /\ Len(ret) = 2 =>
              /\ Succeeded <=> ret[1] = ret[2]
              /\ Succeeded => outcome.value = <<ret[2]>>
              /\ Threw => outcome.value = <<>> /\ outcome.error = ByteReadError[outcome.op]
        /\ Len(ret) < 2 => Threw /\ outcome.value = <<>>

\* a storage read on which the two backends hold different words of equal length
C4_Witness ==
    /\ Is("getContractStorage") /\ Threw
    /\ Len(ret) = 2
    /\ Len(ret[1]) = Len(ret[2])
    /\ ret[1] # ret[2]

Executions == {"dryRun", "runTxInBlock"}

OnlyGasRefundDiffers(l, r) ==
    /\ l.gasRefund # r.gasRefund
    /\ l.totalGasSpent = r.totalGasSpent
    /\ l.createdAddress = r.createdAddress
    /\ l.exceptionError = r.exceptionError
    /\ l.returnValue = r.returnValue

\* C5: when the two results of dryRun or runTxInBlock differ in gasRefund and
\* in nothing else, the call throws "Different gasRefund" and returns nothing.
C5_GasRefund ==
    (/\ outcome.op \in Executions
     /\ Len(ret) = 2
     /\ outcome.status # Pending
     /\ OnlyGasRefundDiffers(ret[1][1], ret[2][1]))
        => (Threw /\ outcome.error = "Different gasRefund" /\ outcome.value = <<>>)

\* a dryRun whose candidate result has a gasRefund one above the reference's,
\* every other field equal, has thrown "Different gasRefund" after both traces
\* were dumped
C5_Witness ==
    /\ Is("dryRun") /\ Threw
    /\ Len(ret) = 2
    /\ OnlyGasRefundDiffers(ret[1][1], ret[2][1])
    /\ ret[2][1].gasRefund = ret[1][1].gasRefund + 1
    /\ outcome.error = "Different gasRefund"
    /\ HasEvent(Dump(EJ, <<"json", "ethereumjs-trace", "number">>))
    /\ HasEvent(Dump(RN, <<"json", "rethnet-trace", "string">>))

DivergenceErrors ==
    {"Different totalGasSpent", "Different gasRefund", "Different createdAddress",
     "Different exceptionError.error", "Different exceptionError.errorType",
     "Different returnValue", "Different balance", "Different codeHash",
     "Different nonce", "Different state root", "Different storage slot",
     "Different contract code"}

Diverged == Threw /\ outcome.error \in DivergenceErrors

DumpedBefore(b, e) ==
    \E i \in 1..Len(events), j \in 1..Len(events) :
        i < j /\ events[i][1] = "dump" /\ events[i][2] = b /\ events[j] = e

BothTracesBeforeThrow ==
    /\ DumpedBefore(EJ, Throw(outcome.error))
    /\ DumpedBefore(RN, Throw(outcome.error))

\* C6: every divergence error of the Dual Adapter, thrown by dryRun,
\* runTxInBlock, getAccount, getStateRoot, getContractStorage or
\* getContractCode, is preceded by a dump of the reference trace and of the
\* candidate trace.
C6_EveryDivergenceDumps == Diverged => BothTracesBeforeThrow

DualRootsAgree == BufferEquals(EJGetStateRoot(ej), RethnetGetStateRoot(rn))

\* a backend whose revertBlock call has just completed holds the root it had
\* when its startBlock call opened the block
C7_EachBackendRestored ==
    /\ Len(hist.revertedTo[1]) # 0 => StateRoot(ej.state) = hist.revertedTo[1][1]
    /\ Len(hist.revertedTo[2]) # 0 => StateRoot(rn.state) = hist.revertedTo[2][1]

\* C7: after startBlock, writes and revertBlock, each backend's state root is
\* its root before startBlock, and the Dual Adapter's getStateRoot gives that
\* root without divergence.
C7_RevertRestores ==
    /\ C7_EachBackendRestored
    /\ (Len(hist.revertedTo[1]) # 0 /\ Len(hist.revertedTo[2]) # 0) => DualRootsAgree

ReferenceOnlyOps ==
    {"traceTransaction", "enableTracing", "disableTracing", "setBlockContext"}

\* C8: traceTransaction, enableTracing, disableTracing and setBlockContext
\* call the reference backend alone, compare nothing, and succeed exactly when
\* the reference backend's call succeeds.
C8_ReferenceOnly ==
    outcome.op \in ReferenceOnlyOps =>
        /\ CalledBackend(EJ)
        /\ ~CalledBackend(RN)
        /\ ret = <<>>
        /\ Succeeded <=> HasEvent(Done(EJ, outcome.op))

\* a setBlockContext that succeeded although the candidate does not implement it
C8_Witness ==
    /\ Is("setBlockContext") /\ Succeeded
    /\ RethnetSetBlockContext(rn, outcome.args[1]).err = "not implemented"
    /\ ej.state # rn.state

\* C9: getAccount, once both backends have returned their account, succeeds
\* exactly when the two accounts have the same balance, nonce and codeHash,
\* whatever their storageRoot.
C9_AccountComparison ==
    (Is("getAccount") /\ Len(ret) = 2 /\ outcome.status # Pending) =>
        /\ Succeeded <=> /\ ret[1].balance = ret[2].balance
                         /\ ret[1].nonce = ret[2].nonce
                         /\ ret[1].codeHash = ret[2].codeHash
        /\ Threw => outcome.error \in {"Different balance", "Different codeHash",
                                       "Different nonce"}

\* a getAccount that succeeded on accounts whose storageRoot differs
C9_Witness ==
    /\ Is("getAccount") /\ Succeeded
    /\ Len(ret) = 2
    /\ ret[1].storageRoot # ret[2].storageRoot

ExceptionErrors ==
    {"Different exceptionError.error", "Different exceptionError.errorType"}

AgreeBeforeExceptionError(l, r) ==
    /\ l.totalGasSpent = r.totalGasSpent
    /\ l.gasRefund = r.gasRefund
    /\ l.createdAddress = r.createdAddress

\* C10: on results that agree in the fields compared earlier, the comparator
\* reports an exceptionError difference exactly when the two exceptionErrors
\* are not both absent or both present with the same error and errorType; no
\* pair with one exceptionError present and the other absent is accepted.
C10_ExceptionError ==
    (cmpIn.kind = "runTxResult" /\ cmpOut # Pending) =>
        /\ AgreeBeforeExceptionError(cmpIn.left, cmpIn.right)
            => (cmpOut \in ExceptionErrors
                    <=> cmpIn.left.exceptionError # cmpIn.right.exceptionError)
        /\ cmpOut = NoErr
            => Len(cmpIn.left.exceptionError) = Len(cmpIn.right.exceptionError)

\* the comparator has rejected a pair in which one exceptionError is present
\* and the other absent
C10_Witness ==
    /\ cmpIn.kind = "runTxResult"
    /\ AgreeBeforeExceptionError(cmpIn.left, cmpIn.right)
    /\ Len(cmpIn.left.exceptionError) = 1
    /\ Len(cmpIn.right.exceptionError) = 0
    /\ cmpOut \in ExceptionErrors

\* C11: a pair the comparator accepts has createdAddress absent in both
\* results or present in both; when it is absent in both the two returnValues
\* are equal byte for byte, and a pair in which exactly one result lacks
\* createdAddress is never accepted.
C11_ReturnValueGate ==
    (cmpIn.kind = "runTxResult" /\ cmpOut # Pending)
        => /\ (/\ cmpOut = NoErr
               /\ Len(cmpIn.left.createdAddress) = 0
               /\ Len(cmpIn.right.createdAddress) = 0)
                  => cmpIn.left.returnValue = cmpIn.right.returnValue
           /\ Len(cmpIn.left.createdAddress) # Len(cmpIn.right.createdAddress)
                  => cmpOut # NoErr

\* the comparator has accepted a pair that created a contract and whose
\* returnValues differ
C11_Witness ==
    /\ cmpIn.kind = "runTxResult"
    /\ cmpOut = NoErr
    /\ Len(cmpIn.left.createdAddress) = 1
    /\ Len(cmpIn.right.createdAddress) = 1
    /\ cmpIn.left.returnValue # cmpIn.right.returnValue

WouldChange(s) ==
    EngineApply(s, outcome.args[1],
                DryRunBlockEnv(outcome.args[2], outcome.args[3]).basefee) # s

C13_WitnessDiverged ==
    /\ Is("getStateRoot")
    /\ Diverged
    /\ Len(hist.root) = 1
    /\ hist.root[1].seen = "again"
    /\ hist.root[1].error = "Different state root"
    /\ hist.clean

EventIn(e, evs) == \E i \in 1..Len(evs) : evs[i] = e

CallIn(b, evs) == \E i \in 1..Len(evs) : evs[i][1] = "call" /\ evs[i][2] = b

\* the failed call is the last thing the operation did before throwing
EndsWithFailure(b, op, evs) ==
    /\ Len(evs) >= 2
    /\ evs[Len(evs) - 1] = Failed(b, op)
    /\ evs[Len(evs)][1] = "throw"

\* the backend a write-replicated operation awaits first
FirstOf(op) == IF op = "restoreContext" THEN EJ ELSE RN

\* step of the Dual Adapter leaves backend b as it was
Untouched(b) == IF b = EJ THEN ej' = ej ELSE rn' = rn

\* C14: in putAccount, putContractStorage, restoreContext, startBlock,
\* addBlockRewards, sealBlock and revertBlock a failed backend call makes the
\* Dual Adapter operation throw straight after it; when the first backend's
\* call fails the second backend is not called and is left untouched, and when
\* the second backend's call fails the first backend is left with what its own
\* call did.
C14_NoCompensation ==
    [][outcome'.op \in WriteReplicated =>
        LET op == outcome'.op
            first == FirstOf(op)
            second == IF first = EJ THEN RN ELSE EJ
        IN /\ \A b \in {EJ, RN} :
                 EventIn(Failed(b, op), events')
                     => /\ outcome'.status = "error"
                        /\ EndsWithFailure(b, op, events')
           /\ EventIn(Failed(first, op), events')
                 => ~CallIn(second, events') /\ Untouched(second)
           /\ EventIn(Failed(second, op), events')
                 => EventIn(Done(first, op), events') /\ Untouched(first)]_vars

\* the first write of a run was a putContractStorage that the candidate
\* applied and the reference rejected: the candidate alone holds the new word
C14_Witness ==
    /\ Is("putContractStorage")
    /\ Threw
    /\ HasEvent(Failed(EJ, "putContractStorage"))
    /\ hist.writes = 1
    /\ Idle
    /\ ej.state = Genesis
    /\ rn.state # Genesis

Settled(i, j) ==
    /\ events[j][1] \in {"done", "fail"}
    /\ events[j][2] = events[i][2]
    /\ events[j][3] = events[i][3]

\* C15: within one Dual Adapter operation a backend call is issued only after
\* every backend call issued before it has completed or failed.
C15_NoConcurrentCalls ==
    \A i \in 1..Len(events), j \in 1..Len(events) :
        (i < j /\ events[i][1] = "call" /\ events[j][1] = "call")
            => \E k \in (i + 1)..(j - 1) : Settled(i, k)

\* a putContractStorage that called both backends and returned
C15_Witness ==
    /\ Is("putContractStorage")
    /\ Succeeded
    /\ CalledBackend(RN)
    /\ CalledBackend(EJ)

\* C16: startBlock calls the candidate first and calls the reference only
\* after the candidate's startBlock has completed successfully; the candidate's
\* call leaves the candidate with an open checkpoint holding its state, and
\* when startBlock returns the reference has one too.
C16_StartBlockOrder ==
    Is("startBlock")
        => /\ events[1] = Call(RN, "startBlock")
           /\ CalledBackend(EJ)
                 => Precedes(Done(RN, "startBlock"), Call(EJ, "startBlock"))
           /\ outcome.status = Pending
                 => /\ Len(rn.checkpoints) > 0
                    /\ rn.checkpoints[Len(rn.checkpoints)] = rn.state
           /\ Succeeded
                 => /\ EJBlockOpen(ej)
                    /\ ej.blockStart[1] = ej.state

\* startBlock has returned with one checkpoint open on the candidate
C16_Witness ==
    /\ Is("startBlock")
    /\ Succeeded
    /\ Len(rn.checkpoints) = 1
    /\ HasEvent(Call(EJ, "startBlock"))

\* C17: a call that compared both backends and returned gives its caller the
\* value of a fixed backend: dryRun the candidate's result with the
\* candidate's trace, runTxInBlock the reference's result with the reference's
\* trace, getAccount the reference's account, and getStateRoot,
\* getContractStorage and getContractCode the candidate's bytes.
C17_Arbitration ==
    (Succeeded /\ Len(ret) = 2)
        => CASE Is("dryRun") -> outcome.value = ret[2]
             [] Is("runTxInBlock") -> outcome.value = ret[1]
             [] Is("getAccount") -> outcome.value = <<ret[1]>>
             [] outcome.op \in ByteReads -> outcome.value = <<ret[2]>>

\* a dryRun has returned although the two results differ (a contract was
\* created and the returnValues are not compared)
C17_Witness ==
    /\ Is("dryRun")
    /\ Succeeded
    /\ ret[1][1] # ret[2][1]

\* a getAccount has returned although the two accounts differ (storageRoot is
\* not compared)
C17_WitnessAccount ==
    /\ Is("getAccount")
    /\ Succeeded
    /\ ret[1] # ret[2]

\* C18: after complete block cycles in which no backend call failed, and with
\* no block open, neither backend has an open checkpoint.
C18_CheckpointBalance ==
    (Idle /\ hist.clean /\ ~hist.open)
        => (Len(rn.checkpoints) = 0 /\ ~EJBlockOpen(ej))

PostMerge == {"merge", "shanghai"}

\* C19: the difficulty of the candidate's block environment is the header's
\* mixHash when the hardfork selected for the block number is the merge or
\* later; otherwise it is 2^32 - 1 when the header difficulty is 2^32 or more,
\* and the header difficulty itself, defined or not, when it is not.
C19_BlockEnvDifficulty ==
    (cmpIn.kind = "blockEnv" /\ Len(ret) = 1)
        => IF cmpIn.selectHardfork[cmpIn.header.number] \in PostMerge
           THEN ret[1] = <<BufferToBigInt(cmpIn.header.mixHash)>>
           ELSE IF Len(cmpIn.header.difficulty) = 1 /\ cmpIn.header.difficulty[1][1] >= 1
           THEN ret[1] = << <<0, 65535, 65535>> >>
           ELSE ret[1] = cmpIn.header.difficulty

\* before the merge, a header difficulty of 2^32 has been clamped
C19_Witness ==
    /\ cmpIn.kind = "blockEnv"
    /\ Len(ret) = 1
    /\ cmpIn.selectHardfork[cmpIn.header.number] = "london"
    /\ cmpIn.header.difficulty = << <<1, 0, 0>> >>
    /\ ret[1] = <<MAX_DIFFICULTY>>

ResultFields ==
    <<"totalGasSpent", "gasRefund", "createdAddress", "exceptionError.error",
      "exceptionError.errorType", "returnValue">>

AccountFields == <<"balance", "codeHash", "nonce">>

FieldError ==
    [f \in {"totalGasSpent", "gasRefund", "createdAddress", "exceptionError.error",
            "exceptionError.errorType", "returnValue", "balance", "codeHash",
            "nonce"} |->
        CASE f = "totalGasSpent" -> "Different totalGasSpent"
          [] f = "gasRefund" -> "Different gasRefund"
          [] f = "createdAddress" -> "Different createdAddress"
          [] f = "exceptionError.error" -> "Different exceptionError.error"
          [] f = "exceptionError.errorType" -> "Different exceptionError.errorType"
          [] f = "returnValue" -> "Different returnValue"
          [] f = "balance" -> "Different balance"
          [] f = "codeHash" -> "Different codeHash"
          [] f = "nonce" -> "Different nonce"]

OptionalError(res) ==
    IF Len(res.exceptionError) = 0 THEN <<>> ELSE <<res.exceptionError[1].error>>

OptionalErrorType(res) ==
    IF Len(res.exceptionError) = 0 THEN <<>> ELSE <<res.exceptionError[1].errorType>>

\* the compared field f differs between l and r; returnValue is a compared
\* field only when the reference result created no contract
FieldDiffers(f, l, r) ==
    CASE f = "totalGasSpent" -> l.totalGasSpent # r.totalGasSpent
      [] f = "gasRefund" -> l.gasRefund # r.gasRefund
      [] f = "createdAddress" -> l.createdAddress # r.createdAddress
      [] f = "exceptionError.error" -> OptionalError(l) # OptionalError(r)
      [] f = "exceptionError.errorType" -> OptionalErrorType(l) # OptionalErrorType(r)
      [] f = "returnValue" ->
            Len(l.createdAddress) = 0 /\ l.returnValue # r.returnValue
      [] f = "balance" -> l.balance # r.balance
      [] f = "codeHash" -> l.codeHash # r.codeHash
      [] f = "nonce" -> l.nonce # r.nonce

\* the error naming the earliest field of the order that differs, NoErr when
\* no field of the order differs
FirstDifference(fields, l, r) ==
    IF \A i \in 1..Len(fields) : ~FieldDiffers(fields[i], l, r) THEN NoErr
    ELSE LET first == CHOOSE i \in 1..Len(fields) :
                          /\ FieldDiffers(fields[i], l, r)
                          /\ \A j \in 1..(i - 1) : ~FieldDiffers(fields[j], l, r)
         IN FieldError[fields[first]]

\* C20: each comparator raises the error that names the earliest compared
\* field, in its fixed order, that differs between the two inputs, and raises
\* no error when no compared field differs.
C20_FirstDifferingField ==
    cmpOut # Pending
        => IF cmpIn.kind = "runTxResult"
           THEN cmpOut = FirstDifference(ResultFields, cmpIn.left, cmpIn.right)
           ELSE cmpOut = FirstDifference(AccountFields, cmpIn.left, cmpIn.right)

\* two accounts that differ in codeHash and in nonce have been rejected for
\* their codeHash
C20_Witness ==
    /\ cmpIn.kind = "account"
    /\ cmpIn.left.balance = cmpIn.right.balance
    /\ cmpIn.left.codeHash # cmpIn.right.codeHash
    /\ cmpIn.left.nonce # cmpIn.right.nonce
    /\ cmpOut = "Different codeHash"

\* two results that differ in gasRefund, exceptionError and returnValue have
\* been rejected for their gasRefund
C20_WitnessResult ==
    /\ cmpIn.kind = "runTxResult"
    /\ cmpIn.left.totalGasSpent = cmpIn.right.totalGasSpent
    /\ cmpIn.left.gasRefund # cmpIn.right.gasRefund
    /\ cmpIn.left.exceptionError # cmpIn.right.exceptionError
    /\ cmpIn.left.returnValue # cmpIn.right.returnValue
    /\ cmpOut = "Different gasRefund"

====